---- MODULE Spec2Model ----
(***************************************************************************)
(* Model of the voice memory test: the AlzheimersVoiceTest React component *)
(* (state, startTest, startListening, the recognizer's handlers,           *)
(* processUserResponse) and the speech delivery functions textToSpeech,    *)
(* playAudio, webSpeechFallback and speakWithFallback.                     *)
(*                                                                         *)
(* Strings that the code inspects character by character (the transcript   *)
(* and the catalog words, in processUserResponse) are sequences of         *)
(* one-character strings; strings the code only passes around (the texts   *)
(* handed to speakWithFallback, error messages) are TLA+ strings.          *)
(***************************************************************************)
EXTENDS Integers, Sequences, FiniteSets, TLC

----------------------------------------------------------------------------
(* Bounds of the model.                                                    *)

\* largest attempt budget handed to speakWithFallback in SpecSpeak
MaxRetriesBound == 3
\* largest number of tokens of a transcript in SpecScore
MaxTokens == 2

----------------------------------------------------------------------------
(* Program constants.                                                      *)

DefaultMaxRetries == 2
BaseDelay == 1000
WordPause == 1000
DistractionDelay == 5000

IntroText == "I will say three words. Please listen carefully and remember them. You will be asked to recall these words later."
WaitText == "Now, please wait for a moment."
RecallText == "Please repeat the three words I said earlier."

wordLists ==
  << <<"Apple", "Watch", "Penny">>,
     <<"Banana", "Sunset", "Chair">>,
     <<"River", "Nation", "Finger">>,
     <<"Leader", "Season", "Table">>,
     <<"Village", "Kitchen", "Baby">>,
     <<"Mountain", "Glasses", "Paper">> >>

\* the characters of each catalog word
WordChars ==
  [ Apple    |-> <<"A","p","p","l","e">>,
    Watch    |-> <<"W","a","t","c","h">>,
    Penny    |-> <<"P","e","n","n","y">>,
    Banana   |-> <<"B","a","n","a","n","a">>,
    Sunset   |-> <<"S","u","n","s","e","t">>,
    Chair    |-> <<"C","h","a","i","r">>,
    River    |-> <<"R","i","v","e","r">>,
    Nation   |-> <<"N","a","t","i","o","n">>,
    Finger   |-> <<"F","i","n","g","e","r">>,
    Leader   |-> <<"L","e","a","d","e","r">>,
    Season   |-> <<"S","e","a","s","o","n">>,
    Table    |-> <<"T","a","b","l","e">>,
    Village  |-> <<"V","i","l","l","a","g","e">>,
    Kitchen  |-> <<"K","i","t","c","h","e","n">>,
    Baby     |-> <<"B","a","b","y">>,
    Mountain |-> <<"M","o","u","n","t","a","i","n">>,
    Glasses  |-> <<"G","l","a","s","s","e","s">>,
    Paper    |-> <<"P","a","p","e","r">> ]

----------------------------------------------------------------------------
(* String.prototype.toLowerCase and String.prototype.includes.             *)

UpperLetters ==
  <<"A","B","C","D","E","F","G","H","I","J","K","L","M",
    "N","O","P","Q","R","S","T","U","V","W","X","Y","Z">>
LowerLetters ==
  <<"a","b","c","d","e","f","g","h","i","j","k","l","m",
    "n","o","p","q","r","s","t","u","v","w","x","y","z">>

toLowerCaseChar(c) ==
  IF \E i \in DOMAIN UpperLetters : UpperLetters[i] = c
  THEN LowerLetters[CHOOSE i \in DOMAIN UpperLetters : UpperLetters[i] = c]
  ELSE c

RECURSIVE toLowerCase(_)
toLowerCase(s) ==
  IF s = <<>> THEN <<>>
  ELSE <<toLowerCaseChar(Head(s))>> \o toLowerCase(Tail(s))

includes(hay, needle) ==
  \E i \in 0..(Len(hay) - Len(needle)) :
     SubSeq(hay, i + 1, i + Len(needle)) = needle

----------------------------------------------------------------------------
(* processUserResponse: the words of the list found in the text.           *)

correctWords_caseSensitive(text, wordList) ==
  SelectSeq(wordList, LAMBDA word : includes(text, WordChars[word]))

correctWords(text, wordList) ==
  SelectSeq(wordList,
            LAMBDA word : includes(toLowerCase(text), toLowerCase(WordChars[word])))

----------------------------------------------------------------------------
(* State.                                                                  *)

VARIABLES
  \* React state of the component
  testActive, testPhase, currentWordIndex, score, transcript, error,
  recognition, isListening, selectedWordList,
  \* the startTest call in flight: its position, its loop variable i, the
  \* isListening its closure captured, the setTimeout it awaits (0: none)
  pc, i, closureIsListening, timer,
  \* the speakWithFallback call in flight: stage, text, maxRetries, attempt,
  \* lastError, the value it rejected with, the backoff delay it awaits
  speak,
  \* the browser: the recognizer's session and what the audio output plays
  recState, audioOut,
  \* history: the outcome of each primary attempt and of each
  \* webSpeechFallback call of the speakWithFallback call in flight, the
  \* transcript of the recognizer's last result event, and, per startTest
  \* run, the phases set, the texts handed to speakWithFallback, the
  \* number of those calls that resolved, and the calls startTest made
  attemptLog, fallbackLog, lastResult, phaseLog, spokenLog, spokenOk, opLog

compVars == <<testActive, testPhase, currentWordIndex, score, transcript,
              error, recognition, isListening, selectedWordList>>
runVars == <<pc, i, closureIsListening, timer, phaseLog, spokenLog, spokenOk,
             opLog>>
speakVars == <<speak, attemptLog, fallbackLog, audioOut>>
recVars == <<recState, lastResult>>
vars == <<compVars, runVars, speakVars, recVars>>

Empty == <<>>
NoError == [kind |-> "null", detail |-> ""]
UnsupportedError ==
  [kind |-> "Speech recognition is not supported in this browser.", detail |-> ""]
RecognitionError(e) == [kind |-> "Speech recognition error: ", detail |-> e]
TestError(e) == [kind |-> "An error occurred during the test: ", detail |-> e]

----------------------------------------------------------------------------
(* The speech delivery functions.                                          *)

\* what makes an attempt fail: textToSpeech throws on a non-ok response or
\* when fetch itself throws; playAudio rejects when decoding fails
FetchErrors == {"API request failed: Status: 503", "TypeError: Failed to fetch"}
DecodeErrors == {"Failed to decode audio data"}
RecognizerInvalidState == "InvalidStateError: recognition has already started"
FallbackUnsupported == "Speech synthesis not supported in this browser"
FallbackErrors == {"Speech synthesis error"}

NoSpeak ==
  [stage |-> "none", text |-> "", maxRetries |-> 0, attempt |-> 0,
   lastError |-> "undefined", thrown |-> "none", delay |-> 0]

RECURSIVE Pow2(_)
Pow2(n) == IF n <= 0 THEN 1 ELSE 2 * Pow2(n - 1)

\* speakWithFallback up to its first await, mutated: the loop tests its
\* condition after the body, so a first attempt is always made
speakWithFallback_testAfterBody(text, maxRetries) ==
  [stage |-> "fetch",
   text |-> text, maxRetries |-> maxRetries, attempt |-> 1,
   lastError |-> "undefined", thrown |-> "none", delay |-> 0]

\* speakWithFallback up to its first await: the loop's first textToSpeech,
\* or, when the loop body never runs, the call of webSpeechFallback
speakWithFallback(text, maxRetries) ==
  [stage |-> IF 1 <= maxRetries THEN "fetch" ELSE "fallbackCall",
   text |-> text, maxRetries |-> maxRetries, attempt |-> 1,
   lastError |-> "undefined", thrown |-> "none", delay |-> 0]

\* the catch block of the retry loop, mutated: a failure ends the retries
attemptFailed_noRetry(s, e) ==
  [s EXCEPT !.lastError = e, !.stage = "fallbackCall", !.attempt = s.attempt + 1]

\* the catch block of the retry loop, mutated: when the attempts are used
\* up the call rejects without trying webSpeechFallback
attemptFailed_noFallback(s, e) ==
  IF s.attempt < s.maxRetries
  THEN [s EXCEPT !.lastError = e, !.stage = "backoff",
                 !.delay = BaseDelay * Pow2(s.attempt - 1)]
  ELSE [s EXCEPT !.lastError = e, !.stage = "rejected", !.thrown = e,
                 !.attempt = s.attempt + 1]

\* the catch block of the retry loop, mutated: the exponent is the attempt
\* number
attemptFailed_exponentOffByOne(s, e) ==
  IF s.attempt < s.maxRetries
  THEN [s EXCEPT !.lastError = e, !.stage = "backoff",
                 !.delay = BaseDelay * Pow2(s.attempt)]
  ELSE [s EXCEPT !.lastError = e, !.stage = "fallbackCall",
                 !.attempt = s.attempt + 1]

\* the catch block of the retry loop, and the loop's exit
attemptFailed(s, e) ==
  IF s.attempt < s.maxRetries
  THEN [s EXCEPT !.lastError = e, !.stage = "backoff",
                 !.delay = BaseDelay * Pow2(s.attempt - 1)]
  ELSE [s EXCEPT !.lastError = e, !.stage = "fallbackCall",
                 !.attempt = s.attempt + 1]

\* throw lastError || fallbackError, mutated: the fallback's error wins
rejectValue_fallbackFirst(lastError, fallbackError) == fallbackError

\* throw lastError || fallbackError
rejectValue(lastError, fallbackError) ==
  IF lastError # "undefined" THEN lastError ELSE fallbackError

Playing(via) == [text |-> speak.text, via |-> via]

\* textToSpeech: fetch answers ok, the body is read, playAudio starts decoding
textToSpeech_ok ==
  /\ speak.stage = "fetch"
  /\ speak' = [speak EXCEPT !.stage = "decode"]
  /\ UNCHANGED <<attemptLog, fallbackLog, audioOut>>

\* textToSpeech throws: non-ok response, or fetch failed
textToSpeech_throws ==
  /\ speak.stage = "fetch"
  /\ \E e \in FetchErrors :
       /\ speak' = attemptFailed(speak, e)
       /\ attemptLog' = Append(attemptLog, e)
  /\ UNCHANGED <<fallbackLog, audioOut>>

\* playAudio, mutated: resolves when playback starts
playAudio_start_resolvesEarly ==
  /\ speak.stage = "decode"
  /\ speak' = [speak EXCEPT !.stage = "resolved"]
  /\ audioOut' = audioOut \cup {Playing("primary")}
  /\ attemptLog' = Append(attemptLog, "ok")
  /\ UNCHANGED fallbackLog

\* playAudio: decodeAudioData succeeds, source.start(0)
playAudio_start ==
  /\ speak.stage = "decode"
  /\ speak' = [speak EXCEPT !.stage = "playing"]
  /\ audioOut' = audioOut \cup {Playing("primary")}
  /\ UNCHANGED <<attemptLog, fallbackLog>>

\* playAudio: decodeAudioData fails, the promise rejects
playAudio_rejects ==
  /\ speak.stage = "decode"
  /\ \E e \in DecodeErrors :
       /\ speak' = attemptFailed(speak, e)
       /\ attemptLog' = Append(attemptLog, e)
  /\ UNCHANGED <<fallbackLog, audioOut>>

\* playAudio: source.onended resolves, mutated: speakWithFallback does not
\* return but goes on with the loop
playAudio_onended_noReturn ==
  /\ speak.stage = "playing"
  /\ speak' = IF speak.attempt < speak.maxRetries
              THEN [speak EXCEPT !.stage = "fetch", !.attempt = speak.attempt + 1]
              ELSE [speak EXCEPT !.stage = "fallbackCall",
                                 !.attempt = speak.attempt + 1]
  /\ audioOut' = audioOut \ {Playing("primary")}
  /\ attemptLog' = Append(attemptLog, "ok")
  /\ UNCHANGED fallbackLog

\* playAudio: source.onended resolves, speakWithFallback returns
playAudio_onended ==
  /\ speak.stage = "playing"
  /\ speak' = [speak EXCEPT !.stage = "resolved"]
  /\ audioOut' = audioOut \ {Playing("primary")}
  /\ attemptLog' = Append(attemptLog, "ok")
  /\ UNCHANGED fallbackLog

\* the backoff timer fires: the loop's next attempt
backoffElapsed ==
  /\ speak.stage = "backoff"
  /\ speak' = [speak EXCEPT !.stage = "fetch", !.attempt = speak.attempt + 1,
                            !.delay = 0]
  /\ UNCHANGED <<attemptLog, fallbackLog, audioOut>>

\* webSpeechFallback, mutated: without window.speechSynthesis it returns
\* from the executor without rejecting, so its promise stays pending
webSpeechFallback_neverRejects ==
  /\ speak.stage = "fallbackCall"
  /\ \/ /\ speak' = [speak EXCEPT !.stage = "fallbackPending"]
        /\ fallbackLog' = Append(fallbackLog,
                                 [text |-> speak.text, outcome |-> "pending"])
        /\ UNCHANGED audioOut
     \/ /\ speak' = [speak EXCEPT !.stage = "fallbackPlaying"]
        /\ fallbackLog' = Append(fallbackLog,
                                 [text |-> speak.text, outcome |-> "pending"])
        /\ audioOut' = audioOut \cup {Playing("fallback")}
  /\ UNCHANGED attemptLog

\* webSpeechFallback is called: without window.speechSynthesis it rejects at
\* once, otherwise the utterance is spoken
webSpeechFallback ==
  /\ speak.stage = "fallbackCall"
  /\ \/ /\ speak' = [speak EXCEPT !.stage = "rejected",
                       !.thrown = rejectValue(speak.lastError, FallbackUnsupported)]
        /\ fallbackLog' = Append(fallbackLog,
                                 [text |-> speak.text, outcome |-> FallbackUnsupported])
        /\ UNCHANGED audioOut
     \/ /\ speak' = [speak EXCEPT !.stage = "fallbackPlaying"]
        /\ fallbackLog' = Append(fallbackLog,
                                 [text |-> speak.text, outcome |-> "pending"])
        /\ audioOut' = audioOut \cup {Playing("fallback")}
  /\ UNCHANGED attemptLog

\* utterance.onend resolves
utterance_onend ==
  /\ speak.stage = "fallbackPlaying"
  /\ speak' = [speak EXCEPT !.stage = "resolved"]
  /\ fallbackLog' = [fallbackLog EXCEPT ![Len(fallbackLog)].outcome = "ok"]
  /\ audioOut' = audioOut \ {Playing("fallback")}
  /\ UNCHANGED attemptLog

\* utterance.onerror rejects; speakWithFallback throws lastError || fallbackError
utterance_onerror ==
  /\ speak.stage = "fallbackPlaying"
  /\ \E e \in FallbackErrors :
       /\ speak' = [speak EXCEPT !.stage = "rejected",
                      !.thrown = rejectValue(speak.lastError, e)]
       /\ fallbackLog' = [fallbackLog EXCEPT ![Len(fallbackLog)].outcome = e]
  /\ audioOut' = audioOut \ {Playing("fallback")}
  /\ UNCHANGED attemptLog

----------------------------------------------------------------------------
(* What the recognizer may hear.                                           *)

Space == <<" ">>

RECURSIVE Join(_)
Join(tokens) ==
  IF tokens = <<>> THEN <<>>
  ELSE IF Len(tokens) = 1 THEN Head(tokens)
  ELSE Head(tokens) \o Space \o Join(Tail(tokens))

\* the utterances the recognizer delivers in Spec
SampleTranscripts ==
  { <<"I"," ","r","e","m","e","m","b","e","r"," ","b","a","n","a","n","a"," ","a","n","d"," ","c","h","a","i","r">>,
    <<"p","i","n","e","a","p","p","l","e">>,
    <<"A","p","p","l","e"," ","W","A","T","C","H"," ","p","e","n","n","y">> }

\* SpecScore: per word of the list, the word as written, in lower case and
\* inside a longer word, and a filler word
Embedded(word) == <<"x">> \o toLowerCase(WordChars[word]) \o <<"s">>
ScoreTokens(wordList) ==
  {<<"a","n","d">>} \cup
  UNION { {WordChars[wordList[k]], toLowerCase(WordChars[wordList[k]]),
           Embedded(wordList[k])} : k \in DOMAIN wordList }
TokenSeqs(tokens, n) == UNION { [1..m -> tokens] : m \in 0..n }
ScoreTranscripts(wordList) ==
  { Join(ts) : ts \in TokenSeqs(ScoreTokens(wordList), MaxTokens) }

\* event.error of the recognizer's error event
RecognizerErrors == {"no-speech"}

----------------------------------------------------------------------------
(* The component.                                                          *)

\* the state after the first render and the mount effect: the word list is
\* drawn, the recognizer is created, or its absence is recorded
mounted ==
  /\ testActive = FALSE
  /\ testPhase = "intro"
  /\ currentWordIndex = 0
  /\ score = 0
  /\ transcript = Empty
  /\ isListening = FALSE
  /\ selectedWordList \in { wordLists[k] : k \in DOMAIN wordLists }
  /\ recognition \in {"SpeechRecognition", "null"}
  /\ error = IF recognition = "null" THEN UnsupportedError ELSE NoError
  /\ pc = "idle"
  /\ i = 0
  /\ closureIsListening = FALSE
  /\ timer = 0
  /\ recState = "idle"
  /\ audioOut = {}
  /\ attemptLog = <<>>
  /\ fallbackLog = <<>>
  /\ lastResult = Empty
  /\ phaseLog = <<"intro">>
  /\ spokenLog = <<>>
  /\ spokenOk = 0
  /\ opLog = <<>>

Init == mounted /\ speak = NoSpeak

\* the testPhase that the processUserResponse called by onresult reads: the
\* handlers are installed by the mount effect (dependency list []), so they
\* keep the first render's processUserResponse and its testPhase
mountTestPhase == "intro"

\* the calls of startTest, as opLog records them
speakOp(text) == [op |-> "speakWithFallback", text |-> text, ms |-> 0]
timeoutOp(ms) == [op |-> "setTimeout", text |-> "", ms |-> ms]
startListeningOp == [op |-> "startListening", text |-> "", ms |-> 0]
recognitionStartOp == [op |-> "recognition.start", text |-> "", ms |-> 0]

\* await speakWithFallback(text), mutated: lastError is kept outside the
\* function, so a call begins with the error the call before it left
CallSpeak_sharedLastError(text) ==
  /\ speak' = [speakWithFallback(text, DefaultMaxRetries)
                 EXCEPT !.lastError = speak.lastError]
  /\ attemptLog' = <<>>
  /\ fallbackLog' = <<>>
  /\ spokenLog' = Append(spokenLog, text)
  /\ opLog' = Append(opLog, speakOp(text))
  /\ UNCHANGED audioOut

\* await speakWithFallback(text) in startTest
CallSpeak(text) ==
  /\ speak' = speakWithFallback(text, DefaultMaxRetries)
  /\ attemptLog' = <<>>
  /\ fallbackLog' = <<>>
  /\ spokenLog' = Append(spokenLog, text)
  /\ opLog' = Append(opLog, speakOp(text))
  /\ UNCHANGED audioOut

\* recognition.start() throws while a session is started and has fired
\* neither error nor end
recognitionStartThrows == recState \in {"listening", "resulted"}

\* Start Test is clicked: startTest up to its first await
startTest ==
  /\ ~testActive /\ testPhase = "intro"
  /\ testActive' = TRUE
  /\ testPhase' = "wordPresentation"
  /\ currentWordIndex' = 0
  /\ score' = 0
  /\ transcript' = Empty
  /\ error' = NoError
  /\ closureIsListening' = isListening
  /\ pc' = "intro"
  /\ phaseLog' = <<"intro", "wordPresentation">>
  /\ speak' = speakWithFallback(IntroText, DefaultMaxRetries)
  /\ attemptLog' = <<>>
  /\ fallbackLog' = <<>>
  /\ spokenLog' = <<IntroText>>
  /\ spokenOk' = 0
  /\ opLog' = <<speakOp(IntroText)>>
  /\ UNCHANGED <<recognition, isListening, selectedWordList, i, timer,
                 audioOut, recVars>>

\* the loop's first word, mutated: read from the catalog's first list
startTest_afterIntro_firstList ==
  /\ pc = "intro" /\ speak.stage = "resolved"
  /\ spokenOk' = spokenOk + 1
  /\ i' = 0
  /\ currentWordIndex' = 0
  /\ CallSpeak(wordLists[1][1])
  /\ pc' = "word"
  /\ UNCHANGED <<testActive, testPhase, score, transcript, error, recognition,
                 isListening, selectedWordList, closureIsListening, timer,
                 phaseLog, recVars>>

\* the introduction was spoken: the loop's first word
startTest_afterIntro ==
  /\ pc = "intro" /\ speak.stage = "resolved"
  /\ spokenOk' = spokenOk + 1
  /\ i' = 0
  /\ currentWordIndex' = 0
  /\ CallSpeak(selectedWordList[1])
  /\ pc' = "word"
  /\ UNCHANGED <<testActive, testPhase, score, transcript, error, recognition,
                 isListening, selectedWordList, closureIsListening, timer,
                 phaseLog, recVars>>

\* a word was spoken: the pause after it
startTest_afterWord ==
  /\ pc = "word" /\ speak.stage = "resolved"
  /\ spokenOk' = spokenOk + 1
  /\ timer' = WordPause
  /\ opLog' = Append(opLog, timeoutOp(WordPause))
  /\ pc' = "pause"
  /\ speak' = NoSpeak
  /\ attemptLog' = <<>>
  /\ fallbackLog' = <<>>
  /\ UNCHANGED <<compVars, i, closureIsListening, phaseLog, spokenLog,
                 audioOut, recVars>>

\* the pause is over: the next word, or the distraction phase
startTest_afterPause ==
  /\ pc = "pause"
  /\ UNCHANGED spokenOk
  /\ i' = i + 1
  /\ timer' = 0
  /\ IF i + 1 < Len(selectedWordList)
     THEN /\ currentWordIndex' = i + 1
          /\ CallSpeak(selectedWordList[i + 2])
          /\ pc' = "word"
          /\ UNCHANGED <<testPhase, phaseLog>>
     ELSE /\ testPhase' = "distraction"
          /\ phaseLog' = Append(phaseLog, "distraction")
          /\ CallSpeak(WaitText)
          /\ pc' = "distraction"
          /\ UNCHANGED currentWordIndex
  /\ UNCHANGED <<testActive, score, transcript, error, recognition,
                 isListening, selectedWordList, closureIsListening, recVars>>

\* the transition instruction was spoken, mutated: the recall phase begins
\* at once, without the distraction interval
startTest_afterDistraction_noWait ==
  /\ pc = "distraction" /\ speak.stage = "resolved"
  /\ spokenOk' = spokenOk + 1
  /\ timer' = 0
  /\ testPhase' = "recall"
  /\ phaseLog' = Append(phaseLog, "recall")
  /\ CallSpeak(RecallText)
  /\ pc' = "recallPrompt"
  /\ UNCHANGED <<testActive, currentWordIndex, score, transcript, error,
                 recognition, isListening, selectedWordList, i,
                 closureIsListening, recVars>>

\* the transition instruction was spoken: the distraction interval
startTest_afterDistraction ==
  /\ pc = "distraction" /\ speak.stage = "resolved"
  /\ spokenOk' = spokenOk + 1
  /\ timer' = DistractionDelay
  /\ opLog' = Append(opLog, timeoutOp(DistractionDelay))
  /\ pc' = "wait"
  /\ speak' = NoSpeak
  /\ attemptLog' = <<>>
  /\ fallbackLog' = <<>>
  /\ UNCHANGED <<compVars, i, closureIsListening, phaseLog, spokenLog,
                 audioOut, recVars>>

\* the distraction interval is over: the recall phase and its prompt
startTest_afterWait ==
  /\ pc = "wait"
  /\ UNCHANGED spokenOk
  /\ timer' = 0
  /\ testPhase' = "recall"
  /\ phaseLog' = Append(phaseLog, "recall")
  /\ CallSpeak(RecallText)
  /\ pc' = "recallPrompt"
  /\ UNCHANGED <<testActive, currentWordIndex, score, transcript, error,
                 recognition, isListening, selectedWordList, i,
                 closureIsListening, recVars>>

\* the recall prompt was spoken: startListening() as startTest's closure has
\* it, reading the recognition and isListening of the render Start Test was
\* clicked in; when recognition.start() throws, the catch block runs
startTest_afterRecallPrompt ==
  /\ pc = "recallPrompt" /\ speak.stage = "resolved"
  /\ spokenOk' = spokenOk + 1
  /\ pc' = "done"
  /\ speak' = NoSpeak
  /\ attemptLog' = <<>>
  /\ fallbackLog' = <<>>
  /\ opLog' = IF recognition # "null" /\ ~closureIsListening
              THEN opLog \o <<startListeningOp, recognitionStartOp>>
              ELSE Append(opLog, startListeningOp)
  /\ IF recognition # "null" /\ ~closureIsListening
     THEN /\ transcript' = Empty
          /\ isListening' = TRUE
          /\ IF recognitionStartThrows
             THEN /\ error' = TestError(RecognizerInvalidState)
                  /\ testPhase' = "intro"
                  /\ testActive' = FALSE
                  /\ phaseLog' = Append(phaseLog, "intro")
                  /\ UNCHANGED recState
             ELSE /\ recState' = "listening"
                  /\ UNCHANGED <<error, testPhase, testActive, phaseLog>>
     ELSE UNCHANGED <<transcript, isListening, error, testPhase, testActive,
                      phaseLog, recState>>
  /\ UNCHANGED <<currentWordIndex, score, recognition, selectedWordList, i,
                 closureIsListening, timer, spokenLog, audioOut, lastResult>>

\* the catch block of startTest, mutated: the run goes on after a failure
startTest_catch_ignores ==
  /\ pc \in {"intro", "word", "distraction", "recallPrompt"}
  /\ speak.stage = "rejected"
  /\ error' = TestError(speak.thrown)
  /\ speak' = [speak EXCEPT !.stage = "resolved"]
  /\ UNCHANGED <<testActive, testPhase, currentWordIndex, score, transcript,
                 recognition, isListening, selectedWordList, pc, i,
                 closureIsListening, timer, phaseLog, spokenLog, spokenOk,
                 opLog, attemptLog, fallbackLog, audioOut, recVars>>

\* the catch block of startTest, mutated: setTestActive(false) is left out
startTest_catch_keepsActive ==
  /\ pc \in {"intro", "word", "distraction", "recallPrompt"}
  /\ speak.stage = "rejected"
  /\ error' = TestError(speak.thrown)
  /\ testPhase' = "intro"
  /\ phaseLog' = Append(phaseLog, "intro")
  /\ pc' = "done"
  /\ speak' = NoSpeak
  /\ attemptLog' = <<>>
  /\ fallbackLog' = <<>>
  /\ UNCHANGED <<testActive, currentWordIndex, score, transcript, recognition,
                 isListening, selectedWordList, i, closureIsListening, timer,
                 spokenLog, spokenOk, opLog, audioOut, recVars>>

\* a speakWithFallback awaited by startTest rejected: the catch block
startTest_catch ==
  /\ pc \in {"intro", "word", "distraction", "recallPrompt"}
  /\ speak.stage = "rejected"
  /\ error' = TestError(speak.thrown)
  /\ testPhase' = "intro"
  /\ testActive' = FALSE
  /\ phaseLog' = Append(phaseLog, "intro")
  /\ pc' = "done"
  /\ speak' = NoSpeak
  /\ attemptLog' = <<>>
  /\ fallbackLog' = <<>>
  /\ UNCHANGED <<currentWordIndex, score, transcript, recognition,
                 isListening, selectedWordList, i, closureIsListening, timer,
                 spokenLog, spokenOk, opLog, audioOut, recVars>>

\* Start Speaking, mutated: the button is rendered in every phase of a run
startListening_anyPhase ==
  /\ testActive /\ ~isListening
  /\ IF recognition # "null" /\ ~isListening
     THEN /\ transcript' = Empty
          /\ isListening' = TRUE
          /\ recState' = IF recognitionStartThrows THEN recState ELSE "listening"
     ELSE UNCHANGED <<transcript, isListening, recState>>
  /\ UNCHANGED <<testActive, testPhase, currentWordIndex, score, error,
                 recognition, selectedWordList, runVars, speakVars, lastResult>>

\* Start Speaking is clicked (rendered in the recall phase while not
\* listening): startListening with the current render's state; an exception
\* of recognition.start() leaves the handler after the state updates
startListening ==
  /\ testActive /\ testPhase = "recall" /\ ~isListening
  /\ IF recognition # "null" /\ ~isListening
     THEN /\ transcript' = Empty
          /\ isListening' = TRUE
          /\ recState' = IF recognitionStartThrows THEN recState ELSE "listening"
     ELSE UNCHANGED <<transcript, isListening, recState>>
  /\ UNCHANGED <<testActive, testPhase, currentWordIndex, score, error,
                 recognition, selectedWordList, runVars, speakVars, lastResult>>

\* processUserResponse: the score it sets
processUserResponse_score(text) == Len(correctWords(text, selectedWordList))

\* processUserResponse: the phase it sets, reading the testPhase of its closure
processUserResponse_phase(closurePhase) ==
  IF closurePhase = "recall" THEN "results" ELSE testPhase

\* recognitionInstance.onresult
onresult(text) ==
  /\ recState = "listening"
  /\ recState' = "resulted"
  /\ lastResult' = text
  /\ transcript' = text
  /\ score' = processUserResponse_score(text)
  /\ testPhase' = processUserResponse_phase(mountTestPhase)
  /\ phaseLog' = IF testPhase' # testPhase THEN Append(phaseLog, testPhase')
                 ELSE phaseLog
  /\ UNCHANGED <<testActive, currentWordIndex, error, recognition,
                 isListening, selectedWordList, pc, i, closureIsListening,
                 timer, spokenLog, spokenOk, opLog, speakVars>>

\* recognitionInstance.onerror, mutated: isListening is left as it is
onerror_keepsListening ==
  /\ recState = "listening"
  /\ recState' = "errored"
  /\ \E e \in RecognizerErrors : error' = RecognitionError(e)
  /\ UNCHANGED <<testActive, testPhase, currentWordIndex, score, transcript,
                 recognition, isListening, selectedWordList, runVars,
                 speakVars, lastResult>>

\* recognitionInstance.onerror
onerror ==
  /\ recState = "listening"
  /\ recState' = "errored"
  /\ \E e \in RecognizerErrors : error' = RecognitionError(e)
  /\ isListening' = FALSE
  /\ UNCHANGED <<testActive, testPhase, currentWordIndex, score, transcript,
                 recognition, selectedWordList, runVars, speakVars, lastResult>>

\* recognitionInstance.onend: after a result, after an error, or with neither
onend ==
  /\ recState \in {"listening", "resulted", "errored"}
  /\ recState' = "idle"
  /\ isListening' = FALSE
  /\ UNCHANGED <<testActive, testPhase, currentWordIndex, score, transcript,
                 error, recognition, selectedWordList, runVars, speakVars,
                 lastResult>>

\* Take Test Again is clicked (rendered with the results)
resetTest ==
  /\ testPhase = "results"
  /\ testActive' = FALSE
  /\ testPhase' = "intro"
  /\ currentWordIndex' = 0
  /\ score' = 0
  /\ transcript' = Empty
  /\ error' = NoError
  /\ phaseLog' = Append(phaseLog, "intro")
  /\ UNCHANGED <<recognition, isListening, selectedWordList, pc, i,
                 closureIsListening, timer, spokenLog, spokenOk, opLog,
                 speakVars, recVars>>

Next ==
  \/ startTest
  \/ startTest_afterIntro
  \/ startTest_afterWord
  \/ startTest_afterPause
  \/ startTest_afterDistraction
  \/ startTest_afterWait
  \/ startTest_afterRecallPrompt
  \/ startTest_catch
  \/ startListening
  \/ \E text \in SampleTranscripts : onresult(text)
  \/ onerror
  \/ onend
  \/ textToSpeech_ok /\ UNCHANGED <<compVars, runVars, recVars>>
  \/ textToSpeech_throws /\ UNCHANGED <<compVars, runVars, recVars>>
  \/ playAudio_start /\ UNCHANGED <<compVars, runVars, recVars>>
  \/ playAudio_rejects /\ UNCHANGED <<compVars, runVars, recVars>>
  \/ playAudio_onended /\ UNCHANGED <<compVars, runVars, recVars>>
  \/ backoffElapsed /\ UNCHANGED <<compVars, runVars, recVars>>
  \/ webSpeechFallback /\ UNCHANGED <<compVars, runVars, recVars>>
  \/ utterance_onend /\ UNCHANGED <<compVars, runVars, recVars>>
  \/ utterance_onerror /\ UNCHANGED <<compVars, runVars, recVars>>

Spec == Init /\ [][Next]_vars

----------------------------------------------------------------------------
(* speakWithFallback on its own: one call, for every text the component    *)
(* speaks and every attempt budget up to the bound.                        *)

InputTexts ==
  {IntroText, WaitText, RecallText} \cup
  { wordLists[k][n] : k \in DOMAIN wordLists, n \in 1..3 }

SpeakInit ==
  /\ mounted
  /\ \E text \in InputTexts, maxRetries \in 0..MaxRetriesBound :
       speak = speakWithFallback(text, maxRetries)

SpeakNext ==
  \/ textToSpeech_ok /\ UNCHANGED <<compVars, runVars, recVars>>
  \/ textToSpeech_throws /\ UNCHANGED <<compVars, runVars, recVars>>
  \/ playAudio_start /\ UNCHANGED <<compVars, runVars, recVars>>
  \/ playAudio_rejects /\ UNCHANGED <<compVars, runVars, recVars>>
  \/ playAudio_onended /\ UNCHANGED <<compVars, runVars, recVars>>
  \/ backoffElapsed /\ UNCHANGED <<compVars, runVars, recVars>>
  \/ webSpeechFallback /\ UNCHANGED <<compVars, runVars, recVars>>
  \/ utterance_onend /\ UNCHANGED <<compVars, runVars, recVars>>
  \/ utterance_onerror /\ UNCHANGED <<compVars, runVars, recVars>>

SpecSpeak == SpeakInit /\ [][SpeakNext]_vars

\* the same call when every fetch, decoding, playback, backoff timer and
\* fallback utterance that is pending completes at some time
SpecSpeakLive == SpeakInit /\ [][SpeakNext]_vars /\ WF_vars(SpeakNext)

----------------------------------------------------------------------------
(* processUserResponse on its own: the recognizer is listening in the      *)
(* recall phase of a run whose prompts were all spoken, and delivers any   *)
(* transcript built from the tokens of the selected word list.             *)

ScoreInit ==
  /\ testActive = TRUE
  /\ testPhase = "recall"
  /\ currentWordIndex = 2
  /\ score = 0
  /\ transcript = Empty
  /\ isListening = TRUE
  /\ selectedWordList \in { wordLists[k] : k \in DOMAIN wordLists }
  /\ recognition = "SpeechRecognition"
  /\ error = NoError
  /\ pc = "done"
  /\ i = 3
  /\ closureIsListening = FALSE
  /\ timer = 0
  /\ speak = NoSpeak
  /\ recState = "listening"
  /\ audioOut = {}
  /\ attemptLog = <<>>
  /\ fallbackLog = <<>>
  /\ lastResult = Empty
  /\ phaseLog = <<"intro", "wordPresentation", "distraction", "recall">>
  /\ spokenLog = <<IntroText>> \o selectedWordList \o <<WaitText, RecallText>>
  /\ spokenOk = 6
  /\ opLog = <<speakOp(IntroText),
               speakOp(selectedWordList[1]), timeoutOp(WordPause),
               speakOp(selectedWordList[2]), timeoutOp(WordPause),
               speakOp(selectedWordList[3]), timeoutOp(WordPause),
               speakOp(WaitText), timeoutOp(DistractionDelay),
               speakOp(RecallText), startListeningOp, recognitionStartOp>>

ScoreNext ==
  \/ \E text \in ScoreTranscripts(selectedWordList) : onresult(text)
  \/ onend

SpecScore == ScoreInit /\ [][ScoreNext]_vars

----------------------------------------------------------------------------
(* Properties of speakWithFallback (SpecSpeak).                            *)

Settled == speak.stage \in {"resolved", "rejected"}
NoAttemptSucceeded == \A k \in DOMAIN attemptLog : attemptLog[k] # "ok"
\* primary attempts begun so far
AttemptsBegun ==
  Len(attemptLog) + (IF speak.stage \in {"fetch", "decode", "playing"} THEN 1 ELSE 0)
FallbackReached ==
  speak.stage \in {"fallbackCall", "fallbackPlaying"} \/ Len(fallbackLog) > 0

\* C1: with maxRetries >= 1, when every primary attempt of a call has failed
\* and the call has settled, webSpeechFallback was invoked exactly once, with
\* the call's text; it is never invoked twice; and when that fallback
\* succeeded the call resolved, with no error.
C1_FallbackOnceThenResolves ==
  speak.maxRetries >= 1 =>
    /\ Len(fallbackLog) <= 1
    /\ (Settled /\ NoAttemptSucceeded) =>
         /\ Len(fallbackLog) = 1
         /\ fallbackLog[1].text = speak.text
         /\ Len(attemptLog) = speak.maxRetries
    /\ (Len(fallbackLog) = 1 /\ fallbackLog[1].outcome = "ok") =>
         /\ speak.stage = "resolved"
         /\ speak.thrown = "none"

\* C1 witness: HTTP 503 on both of 2 attempts, the fallback succeeded, the
\* call resolved
C1_Witness ==
  /\ speak.maxRetries = 2
  /\ attemptLog = <<"API request failed: Status: 503",
                    "API request failed: Status: 503">>
  /\ Len(fallbackLog) = 1 /\ fallbackLog[1].outcome = "ok"
  /\ speak.stage = "resolved"

\* C2: with maxRetries >= 1, a call that rejects (every primary attempt and
\* the fallback failed) rejects with the error of its last primary attempt,
\* which is not the fallback's error.
C2_RejectsWithLastPrimaryError ==
  (speak.maxRetries >= 1 /\ speak.stage = "rejected") =>
    /\ Len(attemptLog) = speak.maxRetries
    /\ Len(fallbackLog) = 1
    /\ speak.thrown = attemptLog[Len(attemptLog)]
    /\ speak.thrown # fallbackLog[1].outcome

\* C2 witness: the two attempts failed differently, the fallback failed, and
\* the call rejected
C2_Witness ==
  /\ speak.stage = "rejected"
  /\ speak.maxRetries = 2
  /\ attemptLog = <<"API request failed: Status: 503",
                    "Failed to decode audio data">>
  /\ fallbackLog[1].outcome = "Speech synthesis error"

\* C7: never more than maxRetries primary attempts are begun; attempt k is
\* the k-th begun; a call waits for its next attempt only after a failure
\* that left attempts over; and the fallback is reached only after
\* maxRetries failed attempts, whatever made them fail (so no failure, a
\* decode failure included, skips a retry).
C7_RetriesUntilBudgetSpent ==
  /\ AttemptsBegun <= speak.maxRetries
  /\ speak.stage \in {"fetch", "decode", "playing"} => speak.attempt = AttemptsBegun
  /\ speak.stage = "backoff" =>
       /\ speak.attempt = Len(attemptLog)
       /\ speak.attempt < speak.maxRetries
       /\ NoAttemptSucceeded
  /\ FallbackReached =>
       /\ Len(attemptLog) = speak.maxRetries
       /\ NoAttemptSucceeded

\* C7 witness: attempt 1 failed on decoding, and attempt 2 is under way
C7_Witness ==
  /\ speak.maxRetries = 2
  /\ attemptLog = <<"Failed to decode audio data">>
  /\ speak.attempt = 2
  /\ speak.stage = "fetch"

----------------------------------------------------------------------------
(* Properties of the recognizer's result and of the score.                 *)

FullPhaseSequence ==
  <<"intro", "wordPresentation", "distraction", "recall", "results">>
IsPrefix(s, t) == Len(s) <= Len(t) /\ SubSeq(t, 1, Len(s)) = s

\* the step in which the recognizer delivers a transcript
ResultDelivered == recState = "listening" /\ recState' = "resulted"

\* two characters that are the same letter, whatever their case
SameLetter(a, b) ==
  \/ a = b
  \/ \E n \in DOMAIN UpperLetters :
        {a, b} = {UpperLetters[n], LowerLetters[n]}

\* the word occurs in the text at offset k, ignoring case
OccursAt(text, word, k) ==
  /\ k + Len(word) <= Len(text)
  /\ \A j \in 1..Len(word) : SameLetter(text[k + j], word[j])

\* the word occurs somewhere in the text, ignoring case
Occurs(text, word) == \E k \in 0..Len(text) : OccursAt(text, word, k)

\* the word occurs in the text as a whole word, ignoring case: bounded by
\* the ends of the text or by spaces
OccursAsWord(text, word) ==
  \E k \in 0..Len(text) :
     /\ OccursAt(text, word, k)
     /\ k = 0 \/ text[k] = " "
     /\ k + Len(word) = Len(text) \/ text[k + Len(word) + 1] = " "

SubstringMatches(text, wordList) ==
  Cardinality({ n \in DOMAIN wordList : Occurs(text, WordChars[wordList[n]]) })
WholeWordMatches(text, wordList) ==
  Cardinality({ n \in DOMAIN wordList : OccursAsWord(text, WordChars[wordList[n]]) })

\* C3 (as claimed): a transcript delivered in the recall phase of a run is
\* stored verbatim, the score is computed from it, and the phase becomes
\* 'results'.
C3_TranscriptScoredAndPhaseResults ==
  [][ (ResultDelivered /\ testActive /\ testPhase = "recall") =>
        /\ transcript' = lastResult'
        /\ score' = SubstringMatches(lastResult', selectedWordList)
        /\ testPhase' = "results" ]_vars

\* C4 (as claimed): in a run whose six prompts all resolved, the phases set
\* are a prefix of intro, wordPresentation, distraction, recall, results,
\* and once the recognizer has delivered a transcript in the recall phase
\* they are exactly that sequence.
C4_PhaseSequence ==
  [][ /\ spokenOk' = 6 => IsPrefix(phaseLog', FullPhaseSequence)
      /\ (spokenOk = 6 /\ ResultDelivered /\ testPhase = "recall") =>
            phaseLog' = FullPhaseSequence ]_vars

\* C5 (as claimed): the score set on a result is the number of words of the
\* list that occur in the transcript as whole words, ignoring case, and is
\* in 0..3.
C5_WholeWordScore ==
  [][ ResultDelivered =>
        /\ score' = WholeWordMatches(lastResult', selectedWordList)
        /\ score' \in 0..3 ]_vars

\* C5 (amended): the score set on a result is the number of words of the
\* list that occur in the transcript as substrings, ignoring case (a word
\* inside a longer word counts), and is in 0..3.
C5_SubstringScore ==
  [][ ResultDelivered =>
        /\ score' = SubstringMatches(lastResult', selectedWordList)
        /\ score' \in 0..3 ]_vars

\* C5 witness: a result was scored whose transcript holds a word of the list
\* only inside a longer word, and holds another in a different case
C5_Witness ==
  /\ recState = "resulted"
  /\ transcript = lastResult
  /\ score = 2
  /\ WholeWordMatches(transcript, selectedWordList) = 1
  /\ \E n \in DOMAIN selectedWordList :
        /\ includes(transcript, toLowerCase(WordChars[selectedWordList[n]]))
        /\ ~includes(transcript, WordChars[selectedWordList[n]])

\* C6 (as claimed): in every reachable state the score is the number of
\* words of the list that the stored transcript contains, ignoring case,
\* and is in 0..3.
C6_ScoreMatchesTranscript ==
  /\ score = SubstringMatches(transcript, selectedWordList)
  /\ score \in 0..3

----------------------------------------------------------------------------
(* Properties of startTest and of the recognizer's errors (Spec).          *)

\* C8: whatever is audible is the one playback of the speakWithFallback call
\* in flight, which has not resolved: a call that has resolved, has not yet
\* started a playback, or waits for a retry leaves the audio output silent.
\* So no two calls of startTest are audible at once, and a word is handed
\* to speakWithFallback only when the output is silent.
C8_ResolvesAfterPlaybackEnded ==
  /\ speak.stage = "playing" => audioOut = {[text |-> speak.text, via |-> "primary"]}
  /\ speak.stage = "fallbackPlaying" =>
       audioOut = {[text |-> speak.text, via |-> "fallback"]}
  /\ speak.stage \notin {"playing", "fallbackPlaying"} => audioOut = {}
  /\ Cardinality(audioOut) <= 1

\* C8 witness: the second word is playing, after the first one resolved
C8_Witness ==
  /\ pc = "word" /\ i = 1 /\ spokenOk = 2
  /\ speak.stage = "playing"
  /\ audioOut = {[text |-> selectedWordList[2], via |-> "primary"]}

PresentingOrDistractingPrompt == pc \in {"intro", "word", "distraction"}

\* C9: when a speakWithFallback awaited by startTest during the
\* wordPresentation or distraction prompts has rejected, the only step the
\* run takes is the abort: the phase becomes 'intro', testActive false, the
\* error is recorded, nothing more is spoken and the recognizer is not
\* started; and a finished run speaks nothing and, back in 'intro', the
\* recognizer is not started until Start Test is clicked again.
C9_RejectionAbortsRun ==
  [][ /\ ( /\ PresentingOrDistractingPrompt
           /\ speak.stage = "rejected"
           /\ <<runVars, speak>>' # <<runVars, speak>> ) =>
             /\ pc' = "done"
             /\ testPhase' = "intro"
             /\ testActive' = FALSE
             /\ error' = TestError(speak.thrown)
             /\ speak'.stage = "none"
             /\ spokenLog' = spokenLog
             /\ recState' = recState
      /\ (pc = "done" /\ pc' = "done") =>
             /\ spokenLog' = spokenLog
             /\ speak'.stage = "none"
             /\ (testPhase = "intro" /\ recState # "listening") =>
                   recState' # "listening" ]_vars

\* C9 witness: a run was aborted while presenting the second word
C9_Witness ==
  /\ pc = "done"
  /\ spokenLog = <<IntroText, selectedWordList[1], selectedWordList[2]>>
  /\ testPhase = "intro"
  /\ ~testActive
  /\ error = TestError("Failed to decode audio data")

\* C10: a recognizer error in the recall phase records the error, leaves
\* the phase 'recall' and the run where it is, and sets isListening false;
\* after it, until the recognizer is started again, the Start Speaking
\* trigger is offered and passes startListening's guard; and a
\* startListening that sets isListening in the recall phase starts the
\* recognizer.
C10_RecognitionErrorRetryable ==
  /\ [][ (recState = "listening" /\ recState' = "errored" /\ testPhase = "recall") =>
           /\ error'.kind = RecognitionError("").kind
           /\ testPhase' = "recall"
           /\ isListening' = FALSE
           /\ testActive' = testActive
           /\ runVars' = runVars ]_vars
  /\ [][ (testPhase = "recall" /\ testActive /\ ~isListening /\ isListening') =>
           recState' = "listening" ]_vars
  /\ [](recState = "errored" => ~isListening /\ recognition # "null")

\* C10 witness: after a recognizer error in the recall phase, the
\* recognizer is listening again, the error still recorded
C10_Witness ==
  /\ testPhase = "recall" /\ testActive
  /\ error = RecognitionError("no-speech")
  /\ isListening
  /\ recState = "listening"

----------------------------------------------------------------------------
(* Properties of the triggers and of a run's order (Spec).                 *)

\* C11: a trigger acts only in its phase. Start Test is not offered while a
\* run is active or the phase is not 'intro', and Start Speaking is not
\* offered while the phase is not 'recall'; so every step that begins a run
\* leaves the phase 'intro', and every step that sets isListening or starts
\* the recognizer leaves the phase 'recall'.
C11_OutOfPhaseTriggersIgnored ==
  /\ []((testActive \/ testPhase # "intro") => ~ENABLED startTest)
  /\ [](testPhase # "recall" => ~ENABLED startListening)
  /\ [][ /\ (~testActive /\ testActive') => testPhase = "intro"
         /\ (pc # "intro" /\ pc' = "intro") => (~testActive /\ testPhase = "intro")
         /\ (~isListening /\ isListening') => testPhase = "recall"
         /\ (recState # "listening" /\ recState' = "listening") =>
               testPhase = "recall" ]_vars

\* C11 witness: in the distraction interval neither trigger is offered,
\* though startListening's own test (recognition && !isListening) would pass
C11_Witness ==
  /\ testActive /\ testPhase = "distraction" /\ pc = "wait"
  /\ recognition # "null" /\ ~isListening /\ recState = "idle"

\* a speakWithFallback call has begun and has not settled
SpeakInFlight == speak.stage \notin {"none", "resolved", "rejected"}

\* C12: the recognizer is never listening while a speakWithFallback call is
\* in flight, whether it fetches, plays, backs off or runs the fallback
\* utterance.
C12_MicAndAudioExclusive == ~(recState = "listening" /\ SpeakInFlight)

\* the recognizer, started by the run itself after the recall prompt, has
\* delivered a transcript in the recall phase of that run
TranscriptDeliveredInRecall ==
  /\ testActive /\ pc = "done" /\ ~closureIsListening
  /\ recState = "resulted"

C14_NextStartDrawsFreshWordList ==
  (pc = "done" /\ ~testActive /\ testPhase = "intro") =>
    ENABLED (startTest /\ selectedWordList' # selectedWordList)

\* nothing is pending: no run is between its awaits, no speakWithFallback
\* call is open and the recognizer has no session, so only a click can
\* change the state
Quiescent ==
  /\ pc \in {"idle", "done"}
  /\ speak.stage = "none"
  /\ recState = "idle"

\* a trigger is offered whose click acts: Take Test Again, Start Test, or a
\* Start Speaking that starts the recognizer
EffectiveTrigger ==
  \/ testPhase = "results"
  \/ ~testActive /\ testPhase = "intro"
  \/ ENABLED (startListening /\ recState' = "listening")

\* C15: the run never comes to rest in the presentation, distraction or
\* recall phase without an effective trigger: when nothing is pending in
\* one of these phases, a trigger is offered whose click acts.
C15_RestOnlyWithEffectiveTrigger ==
  (Quiescent /\ testPhase \in {"wordPresentation", "distraction", "recall"}) =>
    EffectiveTrigger

\* C16: without a recognizer (recognition is null) the error recorded at
\* mount stays set for the whole session and the Start Speaking trigger is
\* never offered.
C16_UnsupportedDisablesRecall ==
  recognition = "null" =>
    /\ error = UnsupportedError
    /\ ~ENABLED startListening

\* the failures among the attempts of the call in flight, in order
Failures == SelectSeq(attemptLog, LAMBDA e : e # "ok")
LastFailure == IF Failures = <<>> THEN "undefined" ELSE Failures[Len(Failures)]
FallbackOutcome == IF fallbackLog = <<>> THEN "none" ELSE fallbackLog[1].outcome

\* C17: a speakWithFallback call owes nothing to the calls before it. Every
\* call, also one with the text of an earlier call, begins with attempt 1,
\* no last error, no delay and empty logs; and at every point its attempt
\* number, last error, backoff delay, use of the fallback and outcome are
\* determined by the text, maxRetries and the answers its own attempts and
\* its own fallback got.
C17_CallsIndependent ==
  /\ [][ opLog' # opLog /\ opLog'[Len(opLog')].op = speakOp("").op =>
           /\ speak' = speakWithFallback(opLog'[Len(opLog')].text,
                                         DefaultMaxRetries)
           /\ attemptLog' = <<>> /\ fallbackLog' = <<>> ]_vars
  /\ [](speak.stage # "none" =>
         /\ speak.text = spokenLog[Len(spokenLog)]
         /\ speak.maxRetries = DefaultMaxRetries
         /\ speak.lastError = LastFailure
         /\ speak.attempt =
              IF speak.stage = "backoff" \/ Failures # attemptLog
              THEN Len(attemptLog) ELSE Len(attemptLog) + 1
         /\ speak.delay = IF speak.stage = "backoff"
                          THEN 1000 * 2^(Len(attemptLog) - 1) ELSE 0
         /\ Len(Failures) <= speak.maxRetries
         /\ Len(fallbackLog) <= 1
         /\ fallbackLog # <<>> <=>
              /\ attemptLog = Failures /\ Len(Failures) = speak.maxRetries
              /\ speak.stage \in {"fallbackPlaying", "resolved", "rejected"}
         /\ fallbackLog # <<>> => fallbackLog[1].text = speak.text
         /\ speak.stage = "resolved" <=>
              (Failures # attemptLog \/ FallbackOutcome = "ok")
         /\ speak.stage = "rejected" <=>
              FallbackOutcome \notin {"none", "pending", "ok"}
         /\ speak.thrown = IF speak.stage = "rejected"
                           THEN (IF LastFailure # "undefined" THEN LastFailure
                                 ELSE FallbackOutcome)
                           ELSE "none")

\* C17 witness: a second call with the introduction's text waits to retry
\* after its first attempt failed, while the first call with that text
\* resolved (the earlier run went on to the recall phase, where isListening
\* was set, which this run's Start Test click saw)
C17_Witness ==
  /\ pc = "intro" /\ closureIsListening
  /\ speak.text = IntroText
  /\ speak.stage = "backoff" /\ Len(attemptLog) = 1

\* C18: the selected word list is one of the catalog's lists, has three
\* words and never changes; the words a run speaks are its words, in order,
\* and a result is scored against it.
C18_WordListFixed ==
  /\ [](/\ \E k \in DOMAIN wordLists : selectedWordList = wordLists[k]
        /\ Len(selectedWordList) = 3
        /\ Len(spokenLog) <= 6
        /\ \A k \in 2..Len(spokenLog) :
              k <= 4 => spokenLog[k] = selectedWordList[k - 1])
  /\ [][selectedWordList' = selectedWordList]_vars
  /\ [][ResultDelivered =>
          score' = SubstringMatches(lastResult', selectedWordList)]_vars

\* C18 witness: a run on the catalog's second list spoke its three words
\* and a transcript was scored against them
C18_Witness ==
  /\ selectedWordList = wordLists[2]
  /\ pc = "done" /\ Len(spokenLog) = 6
  /\ SubSeq(spokenLog, 2, 4) = selectedWordList
  /\ recState = "resulted" /\ transcript = lastResult
  /\ score = 2

\* the calls of a run whose prompts all resolve, when startListening's
\* test (recognition && !isListening) passes
ExpectedOps ==
  <<speakOp(IntroText),
    speakOp(selectedWordList[1]), timeoutOp(1000),
    speakOp(selectedWordList[2]), timeoutOp(1000),
    speakOp(selectedWordList[3]), timeoutOp(1000),
    speakOp(WaitText), timeoutOp(5000),
    speakOp(RecallText), startListeningOp, recognitionStartOp>>

----------------------------------------------------------------------------
(* The backoff of speakWithFallback (SpecSpeak).                           *)

\* the step in which a primary attempt fails, and the one in which it
\* succeeds
AttemptFails ==
  /\ Len(attemptLog') = Len(attemptLog) + 1
  /\ attemptLog'[Len(attemptLog')] # "ok"
AttemptSucceeds ==
  /\ Len(attemptLog') = Len(attemptLog) + 1
  /\ attemptLog'[Len(attemptLog')] = "ok"

\* C20: when attempt k fails and k < maxRetries the call waits
\* 1000 * 2^(k-1) ms, and attempt k+1 begins only when that wait is over;
\* when the last attempt fails the call goes to the fallback without a
\* wait, and after an attempt that succeeds it resolves without one.
C20_BackoffDelays ==
  /\ [][ AttemptFails =>
           IF Len(attemptLog') < speak.maxRetries
           THEN /\ speak'.stage = "backoff"
                /\ speak'.delay = 1000 * 2^(Len(attemptLog') - 1)
           ELSE /\ speak'.stage = "fallbackCall"
                /\ speak'.delay = 0 ]_vars
  /\ [][ AttemptSucceeds => (speak'.stage = "resolved" /\ speak'.delay = 0) ]_vars
  /\ [][ speak'.attempt = speak.attempt + 1 /\ speak'.stage = "fetch" =>
           /\ speak.stage = "backoff"
           /\ speak.delay = 1000 * 2^(speak.attempt - 1)
           /\ speak.attempt = Len(attemptLog) ]_vars
  /\ [](speak.stage # "backoff" => speak.delay = 0)
  /\ [](speak.stage = "backoff" =>
          /\ Len(attemptLog) \in 1..(speak.maxRetries - 1)
          /\ attemptLog[Len(attemptLog)] # "ok")

\* C20 witness: with maxRetries 3 the second attempt has failed and the
\* call waits 2000 ms, having waited 1000 ms after the first
C20_Witness ==
  /\ speak.maxRetries = 3
  /\ speak.stage = "backoff"
  /\ Len(attemptLog) = 2
  /\ speak.delay = 2000

\* C21: when attempt k succeeds (the fetch answered and the playback ended)
\* the call resolves in that step: k attempts were made, all before it
\* failed, no wait is set and webSpeechFallback was not called; and a call
\* that resolved this way does nothing more.
C21_SuccessResolvesAtOnce ==
  /\ [][ AttemptSucceeds =>
           /\ speak.stage = "playing" /\ speak'.stage = "resolved"
           /\ speak'.attempt = speak.attempt
           /\ Len(attemptLog') = speak.attempt
           /\ \A k \in 1..Len(attemptLog) : attemptLog[k] # "ok"
           /\ speak'.delay = 0
           /\ fallbackLog' = <<>>
           /\ audioOut' = {} ]_vars
  /\ [][ (\E k \in DOMAIN attemptLog : attemptLog[k] = "ok") =>
           speakVars' = speakVars ]_vars

\* C21 witness: with maxRetries 3 the second attempt succeeded and the call
\* resolved, one attempt unused and the fallback not called
C21_Witness ==
  /\ speak.maxRetries = 3
  /\ speak.stage = "resolved"
  /\ Len(attemptLog) = 2 /\ attemptLog[1] # "ok" /\ attemptLog[2] = "ok"
  /\ speak.attempt = 2
  /\ fallbackLog = <<>>

----------------------------------------------------------------------------
(* Properties of the recognizer and of the component's state (Spec).       *)

\* the step calls recognition.start(): by the run's startListening(), or by
\* a Start Speaking click that passes startListening's test
StartInvoked ==
  \/ opLog' # opLog /\ opLog'[Len(opLog')] = recognitionStartOp
  \/ ~isListening /\ isListening'

\* C22: recognition.start() is never called while the recognizer is
\* started and has fired neither error nor end.
C22_NoStartWhileStarted ==
  [][StartInvoked => recState \notin {"listening", "resulted"}]_vars

\* C23: a result the recognizer delivers while the phase is not 'recall'
\* changes neither the transcript nor the score.
C23_ResultOutsideRecallIgnored ==
  [][ (ResultDelivered /\ testPhase # "recall") =>
        (transcript' = transcript /\ score' = score) ]_vars

\* a startTest run is between two of its awaits
RunInFlight == pc \notin {"idle", "done"}

\* C24: testActive is true exactly when the phase is not 'intro'; Start
\* Test is offered exactly when the phase is 'intro'; and it is offered
\* only when no startTest run is in flight and no prompt is open, so a
\* run begins only when the one before it is over.
C24_ActiveIffNotIntro ==
  /\ [](testActive <=> testPhase # "intro")
  /\ [](ENABLED startTest <=> testPhase = "intro")
  /\ [](RunInFlight => testActive)
  /\ [](ENABLED startTest => (~RunInFlight /\ speak.stage = "none"))
  /\ [][ (~testActive /\ testActive') => (~RunInFlight /\ pc' = "intro") ]_vars

\* C24 witness: a run was aborted; testActive is false again, the phase is
\* 'intro' and Start Test is offered, the run being over
C24_Witness ==
  /\ ~testActive /\ testPhase = "intro"
  /\ pc = "done"
  /\ error.kind = TestError("").kind
  /\ ENABLED startTest

----------------------------------------------------------------------------
(* Termination of speakWithFallback (SpecSpeakLive).                       *)

\* C25: when every pending fetch, decoding, playback, backoff timer and
\* fallback utterance completes, the call settles: it makes at most
\* maxRetries primary attempts and at most one call of webSpeechFallback,
\* and it ends resolved or rejected and stays so.
C25_AlwaysSettles ==
  /\ <>[]Settled
  /\ [](Len(attemptLog) <= speak.maxRetries)
  /\ [](Len(fallbackLog) <= 1)

\* C25 witness: the call settled after using all three attempts and the
\* fallback
C25_Witness ==
  /\ speak.maxRetries = 3
  /\ Settled
  /\ Len(attemptLog) = 3
  /\ Len(fallbackLog) = 1

----------------------------------------------------------------------------
(* speakWithFallback without attempts (SpecSpeak).                         *)

\* C26: a call with maxRetries 0 makes no primary attempt: it has no last
\* error and no wait, it goes from the call of webSpeechFallback to the
\* utterance or to its end, it resolves only when the utterance ended, and
\* when it rejects it throws the error of webSpeechFallback.
C26_ZeroRetriesFallbackOnly ==
  speak.maxRetries = 0 =>
    /\ attemptLog = <<>>
    /\ speak.lastError = "undefined"
    /\ speak.delay = 0
    /\ speak.stage \in {"fallbackCall", "fallbackPlaying", "resolved", "rejected"}
    /\ \A p \in audioOut : p.via = "fallback"
    /\ speak.stage = "fallbackCall" <=> fallbackLog = <<>>
    /\ speak.stage = "resolved" => fallbackLog[1].outcome = "ok"
    /\ speak.stage = "rejected" =>
          /\ speak.thrown = fallbackLog[1].outcome
          /\ speak.thrown \in FallbackErrors \cup {FallbackUnsupported}

\* C26 witness: a call with maxRetries 0 rejected with the utterance's error
C26_Witness ==
  /\ speak.maxRetries = 0
  /\ speak.stage = "rejected"
  /\ speak.thrown \in FallbackErrors
  /\ attemptLog = <<>>

====
